---- MODULE Spec2Model ----
(***************************************************************************)
(* A model of enews_app.py: the Streamlit script that turns an uploaded    *)
(* .docx or .txt article into a styled HTML page.                           *)
(*                                                                         *)
(* Text is modelled as a sequence of one-character tokens.  ASCII          *)
(* characters stand for themselves; the CJK characters the code tests for  *)
(* carry a name:                                                            *)
(*   "yi" "er"      two of the Chinese numerals of the class [一..十]       *)
(*   "dun"          、      "fw_dot"       ．                               *)
(*   "di"           第      "zhang" "jie"  章 節                            *)
(*   "fw_period"    。      "fw_comma"     ，     "fw_question"  ？         *)
(*   "fw_exclaim"   ！      "fw_semicolon" ；     "fw_colon"     ：         *)
(*   "fw_lparen"    （      "fw_rparen"    ）     "fw_rquote"    」         *)
(*   "x"            any other character (a CJK ideograph)                   *)
(*   "b"            an ASCII letter                                         *)
(* A markup string the code writes as a unit (a tag name, a style          *)
(* attribute, a data URI) is one token.                                     *)
(***************************************************************************)
EXTENDS Integers, Sequences, FiniteSets, TLC

VARIABLES
    pc,                  \* where the script is: idle, run, docx_body, txt_body, returned, done
    uploaded_file,       \* the upload the script runs on (NoFile before the first upload)
    img_map,             \* process_docx: rId -> data URI
    lines,               \* process_txt: content.splitlines()
    idx,                 \* the number of body blocks / lines the loop has processed
    html_parts,          \* the fragment list; None once a run has failed
    is_first_paragraph,  \* the first-paragraph flag of the running process_*
    st_calls,            \* the st.* output calls of this script run, in order
    meta_tag,            \* generate_meta_description's result
    final_html,          \* build_final_html's result: [meta, title, body]
    fn_text,             \* SpecClassify: the argument text of get_heading_level
    fn_first,            \* SpecClassify: the argument is_first_p
    fn_level             \* SpecClassify: the returned level ("unset" before the call)

vars == <<pc, uploaded_file, img_map, lines, idx, html_parts, is_first_paragraph,
          st_calls, meta_tag, final_html, fn_text, fn_first, fn_level>>

pipe_vars == <<pc, uploaded_file, img_map, lines, idx, html_parts, is_first_paragraph,
               st_calls, meta_tag, final_html>>

fn_vars == <<fn_text, fn_first, fn_level>>

\* The values of "nothing": no fragment list (a value no fragment list equals), no
\* level, no meta tag, no page.
None == <<(<<"None">>)>>

NoLevel == "None"

NoMeta == <<>>

NoHtml == [meta |-> <<>>, title |-> <<>>, body |-> <<>>]

(***************************************************************************)
(* Bounds of the model.                                                    *)
(***************************************************************************)
MaxPad == 16

MaxLines == 3

MaxBlocks == 2

(***************************************************************************)
(* Program constants.                                                      *)
(***************************************************************************)
ShortLineThreshold == 15

MetaMaxLen == 150

(***************************************************************************)
(* Strings.                                                                *)
(***************************************************************************)
Whitespace == {" ", "\t"}

Pad(n) == [i \in 1..n |-> "x"]

SetMin(S) == CHOOSE m \in S : \A k \in S : m <= k

SetMax(S) == CHOOSE m \in S : \A k \in S : m >= k

\* str.strip(): the text without its leading and trailing whitespace.
strip(s) ==
    LET n == Len(s)
        leading == SetMin({j \in 0..n : j = n \/ s[j + 1] \notin Whitespace})
        trailing == SetMin({j \in 0..n : j = n \/ s[n - j] \notin Whitespace})
    IN  SubSeq(s, leading + 1, n - trailing)

\* str.startswith(prefix)
startswith(s, prefix) ==
    /\ Len(s) >= Len(prefix)
    /\ SubSeq(s, 1, Len(prefix)) = prefix

(***************************************************************************)
(* get_heading_level.                                                      *)
(***************************************************************************)
ChineseNumerals == {"yi", "er"}

Digits == {"3", "7"}

NumeralSeparators == {"dun", "fw_dot", "."}

ChapterMarks == {"zhang", "jie"}

\* The position that ends the longest run of characters of Class starting at i
\* (what the greedy [..]+ of the pattern consumes).
RunEnd(s, i, Class) ==
    SetMin({j \in i..(Len(s) + 1) : j > Len(s) \/ s[j] \notin Class})

\* re.match(r'^([一..十]+[、．\.])|(\d+\.)|(\([一..十]+\))|(第[一..十]+[章節])', s):
\* re.match anchors every alternative at the start of s.
re_match_numbering(s) ==
    \/ LET e == RunEnd(s, 1, ChineseNumerals)
       IN  e > 1 /\ e <= Len(s) /\ s[e] \in NumeralSeparators
    \/ LET e == RunEnd(s, 1, Digits)
       IN  e > 1 /\ e <= Len(s) /\ s[e] = "."
    \/ /\ Len(s) >= 1
       /\ s[1] = "("
       /\ LET e == RunEnd(s, 2, ChineseNumerals)
          IN  e > 2 /\ e <= Len(s) /\ s[e] = ")"
    \/ /\ Len(s) >= 1
       /\ s[1] = "di"
       /\ LET e == RunEnd(s, 2, ChineseNumerals)
          IN  e > 2 /\ e <= Len(s) /\ s[e] \in ChapterMarks

\* The list of line 37: 。 ， ？ ！ ； : ： ) ）
TerminalPunctuation ==
    {"fw_period", "fw_comma", "fw_question", "fw_exclaim", "fw_semicolon",
     ":", "fw_colon", ")", "fw_rparen"}

\* A plausible slip: the short-line rule tried before the numbering rule.
get_heading_level_short_first(text, is_first_p) ==
    LET stripped_text == strip(text)
    IN  IF stripped_text = <<>> THEN NoLevel
        ELSE IF is_first_p THEN "h1"
        ELSE IF /\ Len(stripped_text) < ShortLineThreshold
                /\ stripped_text[Len(stripped_text)] \notin TerminalPunctuation
             THEN "h3"
        ELSE IF re_match_numbering(stripped_text) THEN "h2"
        ELSE "p"

get_heading_level(text, is_first_p) ==
    LET stripped_text == strip(text)
    IN  IF stripped_text = <<>> THEN NoLevel
        ELSE IF is_first_p THEN "h1"
        ELSE IF re_match_numbering(stripped_text) THEN "h2"
        ELSE IF /\ Len(stripped_text) < ShortLineThreshold
                /\ stripped_text[Len(stripped_text)] \notin TerminalPunctuation
             THEN "h3"
        ELSE "p"

(***************************************************************************)
(* Fragments: the f-strings of lines 88, 96 and 126.                       *)
(***************************************************************************)
style_map == [h1 |-> "STYLE_H1", h2 |-> "STYLE_H2", h3 |-> "STYLE_H3", p |-> "STYLE_P"]

\* f'<{level} style="{style_map[level]}">{text}</{level}>': the text is embedded as it is.
text_fragment(level, text) ==
    <<"<", level, style_map[level], ">">> \o text \o <<"<", "/", level, ">">>

\* f'<div style="{STYLE_IMG_CONTAINER}"><img src="{img_src}" style="{STYLE_IMG}" alt="..."></div>'
image_fragment(img_src) ==
    <<"<", "div", "STYLE_IMG_CONTAINER", ">",
      "<", "img", img_src, "STYLE_IMG", "alt", ">",
      "<", "/", "div", ">">>

(***************************************************************************)
(* BeautifulSoup(part, 'html.parser').get_text(): the text nodes of the    *)
(* markup, concatenated.  html.parser opens a tag at a "<" that a letter   *)
(* or "/" follows and closes it at the next ">"; any other "<" is text.    *)
(* (A fragment always ends in the ">" of its own end tag, so a tag opened  *)
(* inside a fragment is always closed.)                                    *)
(***************************************************************************)
TagNameStart == {"b", "p", "h1", "h2", "h3", "div", "img", "/"}

RECURSIVE get_text(_)
get_text(s) ==
    LET opens == {i \in 1..(Len(s) - 1) : s[i] = "<" /\ s[i + 1] \in TagNameStart}
    IN  IF opens = {} THEN s
        ELSE LET open == SetMin(opens)
                 closers == {j \in (open + 1)..Len(s) : s[j] = ">"}
             IN  SubSeq(s, 1, open - 1)
                 \o (IF closers = {} THEN <<>>
                     ELSE get_text(SubSeq(s, SetMin(closers) + 1, Len(s))))

\* str.replace('"', "'")
replace_quotes(s) == [i \in 1..Len(s) |-> IF s[i] = "\"" THEN "'" ELSE s[i]]

(***************************************************************************)
(* generate_meta_description.                                              *)
(***************************************************************************)
DefaultMeta == <<"META_OPEN", "DEFAULT_DESCRIPTION", "META_CLOSE">>

\* A plausible slip: the 150-character cut left out.
generate_meta_description_uncut(parts) ==
    LET ps == {i \in 1..Len(parts) : startswith(strip(parts[i]), <<"<", "p">>)}
    IN  IF ps = {} THEN DefaultMeta
        ELSE <<"META_OPEN">> \o replace_quotes(strip(get_text(parts[SetMin(ps)])))
                 \o <<"META_CLOSE">>

generate_meta_description(parts) ==
    LET ps == {i \in 1..Len(parts) : startswith(strip(parts[i]), <<"<", "p">>)}
    IN  IF ps = {} THEN DefaultMeta
        ELSE LET p_text == strip(get_text(parts[SetMin(ps)]))
                 meta_content ==
                     IF Len(p_text) > MetaMaxLen
                     THEN SubSeq(p_text, 1, MetaMaxLen) \o <<".", ".", ".">>
                     ELSE p_text
             IN  <<"META_OPEN">> \o replace_quotes(meta_content) \o <<"META_CLOSE">>

(***************************************************************************)
(* build_final_html: the three values the page template is filled with.    *)
(***************************************************************************)
RECURSIVE join_newline(_)
join_newline(parts) ==
    IF parts = <<>> THEN <<>>
    ELSE IF Len(parts) = 1 THEN parts[1]
    ELSE parts[1] \o <<"\n">> \o join_newline(Tail(parts))

build_final_html(parts, meta_description, title) ==
    LET h1s == {i \in 1..Len(parts) : startswith(strip(parts[i]), <<"<", "h1">>)}
    IN  [meta  |-> meta_description,
         title |-> IF h1s = {} THEN title
                   ELSE strip(get_text(parts[SetMin(h1s)])),
         body  |-> join_newline(parts)]

(***************************************************************************)
(* The loop bodies of process_docx and process_txt.                        *)
(***************************************************************************)
\* Lines 91-96 and 121-126: the fragment, if any, of a paragraph's or line's text.
text_parts(raw, is_first) ==
    LET text == strip(raw)
    IN  IF text = <<>> THEN <<>>
        ELSE LET level == get_heading_level(text, is_first)
             IN  IF level = NoLevel THEN <<>>
                 ELSE <<text_fragment(level, text)>>

\* Lines 97-98 and 127-128: the flag after a paragraph or line.
next_is_first(raw, is_first) ==
    IF text_parts(raw, is_first) # <<>> /\ is_first THEN FALSE ELSE is_first

\* Lines 83-88: one fragment per reference whose id is in img_map.
RECURSIVE image_parts(_, _)
image_parts(rids, imgs) ==
    IF rids = <<>> THEN <<>>
    ELSE (IF rids[1] \in DOMAIN imgs THEN <<image_fragment(imgs[rids[1]])>> ELSE <<>>)
         \o image_parts(Tail(rids), imgs)

\* A plausible slip: the text fragment appended before the image fragments.
paragraph_parts_text_first(block, imgs, is_first) ==
    text_parts(block.text, is_first) \o image_parts(block.rids, imgs)

paragraph_parts(block, imgs, is_first) ==
    image_parts(block.rids, imgs) \o text_parts(block.text, is_first)

\* The cells of a table in reading order: row by row, cell by cell.
RECURSIVE flatten(_)
flatten(rows) ==
    IF rows = <<>> THEN <<>> ELSE rows[1] \o flatten(Tail(rows))

\* A plausible change: the table branch of lines 99-102 filled in, every cell's
\* text handled as a paragraph's.
RECURSIVE cells_parts(_, _)
cells_parts(cells, is_first) ==
    IF cells = <<>> THEN <<>>
    ELSE text_parts(cells[1], is_first)
         \o cells_parts(Tail(cells), next_is_first(cells[1], is_first))

block_parts_with_tables(block, imgs, is_first) ==
    IF block.kind = "p" THEN paragraph_parts(block, imgs, is_first)
    ELSE cells_parts(flatten(block.rows), is_first)

\* Lines 79-102: only a paragraph block (CT_P) is handled; a table is passed over.
block_parts(block, imgs, is_first) ==
    IF block.kind = "p" THEN paragraph_parts(block, imgs, is_first)
    ELSE <<>>

block_next_is_first(block, is_first) ==
    IF block.kind = "p" THEN next_is_first(block.text, is_first)
    ELSE is_first

\* Lines 66 and 118: is_first_paragraph = True at the start of every run.
\* A plausible slip: the flag kept in a variable that outlives the call.
initial_flag_stale == is_first_paragraph

initial_flag == TRUE

\* Lines 106-108 and 130-132: the handler reports the error and returns None.
\* A plausible slip: the fragments collected so far returned.
except_result_partial(parts) == parts

except_result(parts) == None

(***************************************************************************)
(* The uploads.                                                            *)
(***************************************************************************)
\* uploaded_file.name.split('.')[-1]
file_extension(name) ==
    LET dots == {i \in 1..Len(name) : name[i] = "."}
    IN  IF dots = {} THEN name ELSE SubSeq(name, SetMax(dots) + 1, Len(name))

\* content.splitlines(): a final newline opens no further line.
RECURSIVE splitlines(_)
splitlines(content) ==
    IF content = <<>> THEN <<>>
    ELSE LET breaks == {i \in 1..Len(content) : content[i] = "\n"}
         IN  IF breaks = {} THEN <<content>>
             ELSE <<SubSeq(content, 1, SetMin(breaks) - 1)>>
                  \o splitlines(SubSeq(content, SetMin(breaks) + 1, Len(content)))

\* The lines a text upload is written from.
TxtLines ==
    {<<>>,
     <<" ">>,
     <<"x", "x">>,
     <<" ", "yi", "dun", "x", "fw_period", " ">>,
     <<"x", "<", "b", ">", "\"", "x", "\"", "fw_period">>,
     Pad(ShortLineThreshold),
     Pad(MetaMaxLen - 1) \o <<"fw_period">>,
     Pad(MetaMaxLen) \o <<"fw_period">>}

RECURSIVE SeqsUpTo(_, _)
SeqsUpTo(S, n) ==
    IF n = 0 THEN {<<>>}
    ELSE LET shorter == SeqsUpTo(S, n - 1)
         IN  shorter \cup {Append(q, e) : q \in {r \in shorter : Len(r) = n - 1}, e \in S}

NoRels == [rId0 |-> [is_image |-> FALSE, blob_ok |-> TRUE, uri |-> "styles.xml"]]

TxtFile(utf8, content) ==
    [name |-> <<"a", ".", "txt">>, readable |-> TRUE, utf8 |-> utf8,
     rels |-> NoRels, body |-> <<>>, content |-> content]

DocxFile(name, readable, rels, body) ==
    [name |-> name, readable |-> readable, utf8 |-> FALSE,
     rels |-> rels, body |-> body, content |-> <<>>]

TxtFiles ==
    {TxtFile(TRUE, join_newline(ls)) : ls \in SeqsUpTo(TxtLines, MaxLines)}
        \cup {TxtFile(FALSE, <<"\n">>)}

\* The relationships of a document part: rId1 is an embedded image; rId2 is absent,
\* a second embedded image, an image whose part cannot be read (a linked, external
\* image has no target part), or a relationship that is no image.
Image(uri) == [is_image |-> TRUE, blob_ok |-> TRUE, uri |-> uri]

RelTables ==
    {[rId1 |-> Image("data:png;base64,A")],
     [rId1 |-> Image("data:png;base64,A"), rId2 |-> Image("data:jpeg;base64,B")],
     [rId1 |-> Image("data:png;base64,A"),
      rId2 |-> [is_image |-> TRUE, blob_ok |-> FALSE, uri |-> "external"]],
     [rId1 |-> Image("data:png;base64,A"),
      rId2 |-> [is_image |-> FALSE, blob_ok |-> TRUE, uri |-> "hyperlink"]]}

RefSeqs ==
    {<<>>, <<"rId1">>, <<"rId2">>, <<"rId1", "rId1">>, <<"rId2", "rId1">>}

ParagraphTexts == {<<" ">>, <<"x", "x">>, <<"x", "fw_period">>}

Paragraph(rids, text) == [kind |-> "p", rids |-> rids, text |-> text, rows |-> <<>>]

Table(rows) == [kind |-> "tbl", rids |-> <<>>, text |-> <<>>, rows |-> rows]

\* A paragraph element whose reading raises.
BadParagraph == [kind |-> "bad", rids |-> <<>>, text |-> <<>>, rows |-> <<>>]

Tables ==
    {Table(<<<<(<<"x", "x">>)>>>>),
     Table(<<<<(<<>>), (<<"x", "fw_period">>)>>, <<(<<"x", "x">>), (<<>>)>>>>)}

Blocks ==
    {Paragraph(r, t) : r \in RefSeqs, t \in ParagraphTexts} \cup Tables \cup {BadParagraph}

DocxFiles ==
    {DocxFile(<<"a", ".", "docx">>, TRUE, r, b) :
        r \in RelTables, b \in SeqsUpTo(Blocks, MaxBlocks)}
        \cup {DocxFile(<<"a", ".", "docx">>, FALSE, NoRels, <<>>)}

\* The uploader takes the extension in any case; the script compares it as written.
OtherFiles == {DocxFile(<<"a", ".", "DOCX">>, TRUE, NoRels, <<>>)}

Files == TxtFiles \cup DocxFiles \cup OtherFiles

NoFile == DocxFile(<<>>, FALSE, NoRels, <<>>)

(***************************************************************************)
(* process_docx, lines 68-74: the image map.                               *)
(***************************************************************************)
image_rids(rels) == {r \in DOMAIN rels : rels[r].is_image}

\* rel.target_part.blob raises for an image relationship without a readable part.
img_map_raises(rels) == \E r \in image_rids(rels) : ~rels[r].blob_ok

build_img_map(rels) == [r \in image_rids(rels) |-> rels[r].uri]

EmptyMap == [r \in {} |-> ""]

(***************************************************************************)
(* The script.                                                             *)
(***************************************************************************)
PipeInit ==
    /\ pc = "idle"
    /\ uploaded_file = NoFile
    /\ img_map = EmptyMap
    /\ lines = <<>>
    /\ idx = 0
    /\ html_parts = None
    /\ is_first_paragraph = TRUE
    /\ st_calls = <<>>
    /\ meta_tag = NoMeta
    /\ final_html = NoHtml

Init ==
    /\ PipeInit
    /\ fn_text = <<>>
    /\ fn_first = FALSE
    /\ fn_level = "unset"

\* Line 193: a file is uploaded and the script runs again from the top.
Upload(f) ==
    /\ pc = "idle"
    /\ uploaded_file' = f
    /\ pc' = "run"
    /\ UNCHANGED <<img_map, lines, idx, html_parts, is_first_paragraph, st_calls,
                   meta_tag, final_html, fn_vars>>

\* Lines 193-195: the upload is removed; the script runs again, uploaded_file is
\* None and nothing but the uploader is drawn.  (Replacing the upload by another
\* file is this step and the next upload in one.)
ClearUpload ==
    /\ pc = "done"
    /\ uploaded_file' = NoFile
    /\ pc' = "idle"
    /\ img_map' = EmptyMap
    /\ lines' = <<>>
    /\ idx' = 0
    /\ html_parts' = None
    /\ st_calls' = <<>>
    /\ meta_tag' = NoMeta
    /\ final_html' = NoHtml
    /\ UNCHANGED <<is_first_paragraph, fn_vars>>

\* The except branch of process_docx and process_txt: st.error, return None.
Raise ==
    /\ st_calls' = Append(st_calls, "error")
    /\ html_parts' = except_result(html_parts)
    /\ pc' = "returned"

\* Lines 199-200 and 63-74: process_docx up to the loop over the body.
ProcessDocxStart ==
    /\ pc = "run"
    /\ file_extension(uploaded_file.name) = <<"docx">>
    /\ IF ~uploaded_file.readable \/ img_map_raises(uploaded_file.rels)
       THEN /\ Raise
            /\ UNCHANGED <<img_map, is_first_paragraph>>
       ELSE /\ html_parts' = <<>>
            /\ is_first_paragraph' = initial_flag
            /\ img_map' = build_img_map(uploaded_file.rels)
            /\ pc' = "docx_body"
            /\ UNCHANGED st_calls
    /\ UNCHANGED <<uploaded_file, lines, idx, meta_tag, final_html, fn_vars>>

\* Lines 77-102: one block of the body.
DocxBlock ==
    /\ pc = "docx_body"
    /\ idx < Len(uploaded_file.body)
    /\ LET block == uploaded_file.body[idx + 1]
       IN  IF block.kind = "bad"
           THEN /\ Raise
                /\ UNCHANGED <<is_first_paragraph, idx>>
           ELSE /\ html_parts' =
                       html_parts \o block_parts(block, img_map, is_first_paragraph)
                /\ is_first_paragraph' = block_next_is_first(block, is_first_paragraph)
                /\ idx' = idx + 1
                /\ UNCHANGED <<pc, st_calls>>
    /\ UNCHANGED <<uploaded_file, img_map, lines, meta_tag, final_html, fn_vars>>

\* Line 104: return html_parts.
DocxReturn ==
    /\ pc = "docx_body"
    /\ idx = Len(uploaded_file.body)
    /\ pc' = "returned"
    /\ UNCHANGED <<uploaded_file, img_map, lines, idx, html_parts, is_first_paragraph,
                   st_calls, meta_tag, final_html, fn_vars>>

\* Lines 201-202 and 114-118: process_txt up to the loop over the lines.
ProcessTxtStart ==
    /\ pc = "run"
    /\ file_extension(uploaded_file.name) = <<"txt">>
    /\ IF ~uploaded_file.utf8
       THEN /\ Raise
            /\ UNCHANGED <<lines, is_first_paragraph>>
       ELSE /\ lines' = splitlines(uploaded_file.content)
            /\ html_parts' = <<>>
            /\ is_first_paragraph' = initial_flag
            /\ pc' = "txt_body"
            /\ UNCHANGED st_calls
    /\ UNCHANGED <<uploaded_file, img_map, idx, meta_tag, final_html, fn_vars>>

\* Lines 120-128: one line of the text.
TxtLine ==
    /\ pc = "txt_body"
    /\ idx < Len(lines)
    /\ html_parts' = html_parts \o text_parts(lines[idx + 1], is_first_paragraph)
    /\ is_first_paragraph' = next_is_first(lines[idx + 1], is_first_paragraph)
    /\ idx' = idx + 1
    /\ UNCHANGED <<pc, uploaded_file, img_map, lines, st_calls, meta_tag, final_html,
                   fn_vars>>

\* Line 129: return html_parts.
TxtReturn ==
    /\ pc = "txt_body"
    /\ idx = Len(lines)
    /\ pc' = "returned"
    /\ UNCHANGED <<uploaded_file, img_map, lines, idx, html_parts, is_first_paragraph,
                   st_calls, meta_tag, final_html, fn_vars>>

\* Lines 203-205: any other extension.
UnsupportedExtension ==
    /\ pc = "run"
    /\ file_extension(uploaded_file.name) \notin {<<"docx">>, <<"txt">>}
    /\ st_calls' = Append(st_calls, "error")
    /\ html_parts' = None
    /\ pc' = "returned"
    /\ UNCHANGED <<uploaded_file, img_map, lines, idx, is_first_paragraph, meta_tag,
                   final_html, fn_vars>>

\* Line 207: `if html_parts:` is false for None and for the empty list.
truthy(parts) == parts # None /\ parts # <<>>

\* Lines 207-227: the result is built and shown, or nothing is.
Render ==
    /\ pc = "returned"
    /\ IF truthy(html_parts)
       THEN /\ meta_tag' = generate_meta_description(html_parts)
            /\ final_html' =
                   build_final_html(html_parts, generate_meta_description(html_parts),
                                    uploaded_file.name)
            /\ st_calls' = st_calls \o <<"success", "subheader", "text_area",
                                         "download_button", "subheader", "html">>
       ELSE UNCHANGED <<meta_tag, final_html, st_calls>>
    /\ pc' = "done"
    /\ UNCHANGED <<uploaded_file, img_map, lines, idx, html_parts, is_first_paragraph,
                   fn_vars>>

Next ==
    \/ pc = "idle" /\ \E f \in Files : Upload(f)
    \/ ClearUpload
    \/ ProcessDocxStart
    \/ DocxBlock
    \/ DocxReturn
    \/ ProcessTxtStart
    \/ TxtLine
    \/ TxtReturn
    \/ UnsupportedExtension
    \/ Render

Spec == Init /\ [][Next]_vars

(***************************************************************************)
(* get_heading_level on its own: one call on a text drawn from a bounded   *)
(* set (a head, MaxPad or fewer ordinary characters, a last character).    *)
(***************************************************************************)
ClassifyHeads ==
    {<<>>,
     <<"yi", "dun">>, <<"yi", "er", "fw_dot">>, <<"er", ".">>,
     <<"3", ".">>, <<"3", "7", ".">>,
     <<"(", "yi", ")">>, <<"(", "er", "yi", ")">>,
     <<"di", "yi", "zhang">>, <<"di", "er", "yi", "jie">>,
     <<" ", "yi", "dun">>,
     <<"yi">>, <<"3">>, <<"(", "yi">>, <<"di", "yi">>, <<"di", "3", "zhang">>,
     <<"x", "yi", "dun">>, <<"fw_lparen", "yi", "fw_rparen">>}

ClassifyTails ==
    {<<>>, <<" ">>, <<"x">>,
     <<"fw_period">>, <<"fw_comma">>, <<"fw_question">>, <<"fw_exclaim">>,
     <<"fw_semicolon">>, <<"fw_colon">>, <<"fw_rparen">>, <<"fw_rquote">>,
     <<".">>, <<",">>, <<"?">>, <<"!">>, <<";">>, <<":">>, <<")">>, <<"\"">>}

ClassifyTexts ==
    {h \o Pad(k) \o t : h \in ClassifyHeads, k \in 0..MaxPad, t \in ClassifyTails}

ClassifyInit ==
    /\ PipeInit
    /\ fn_text \in ClassifyTexts
    /\ fn_first \in BOOLEAN
    /\ fn_level = "unset"

Classify ==
    /\ fn_level = "unset"
    /\ fn_level' = get_heading_level(fn_text, fn_first)
    /\ UNCHANGED <<fn_text, fn_first, pipe_vars>>

ClassifyNext == Classify

SpecClassify == ClassifyInit /\ [][ClassifyNext]_vars

(***************************************************************************)
(* The statements checked.                                                 *)
(***************************************************************************)
\* The trimmed line of the call under SpecClassify.
TrimmedLine == strip(fn_text)

AllIn(s, from, to, Class) == \A i \in from..to : s[i] \in Class

\* The line begins with a numbering or section marker: Chinese numerals and a
\* separator, digits and a period, a parenthesized Chinese numeral, 第..章 or 第..節.
BeginsWithMarker(s) ==
    \E n \in 1..Len(s) :
        \/ /\ n + 1 <= Len(s)
           /\ AllIn(s, 1, n, ChineseNumerals)
           /\ s[n + 1] \in {"dun", "fw_dot", "."}
        \/ /\ n + 1 <= Len(s)
           /\ AllIn(s, 1, n, Digits)
           /\ s[n + 1] = "."
        \/ /\ n + 2 <= Len(s)
           /\ s[1] = "("
           /\ AllIn(s, 2, n + 1, ChineseNumerals)
           /\ s[n + 2] = ")"
        \/ /\ n + 2 <= Len(s)
           /\ s[1] = "di"
           /\ AllIn(s, 2, n + 1, ChineseNumerals)
           /\ s[n + 2] \in {"zhang", "jie"}

\* The terminal marks the description lists: period, comma, question mark,
\* exclamation mark, semicolon, colon, closing parenthesis and closing quote,
\* each full-width and half-width.
DescribedTerminalPunctuation ==
    {"fw_period", ".", "fw_comma", ",", "fw_question", "?", "fw_exclaim", "!",
     "fw_semicolon", ";", "fw_colon", ":", "fw_rparen", ")", "fw_rquote", "\""}

\* C2: a non-blank trimmed line that is not the first and has no numbering marker
\* is H3 exactly when it is shorter than the threshold and its last character is
\* none of the described terminal marks, and Paragraph otherwise.
C2_ShortLineRule ==
    (/\ fn_level # "unset"
     /\ ~fn_first
     /\ TrimmedLine # <<>>
     /\ ~BeginsWithMarker(TrimmedLine))
    => fn_level = IF /\ Len(TrimmedLine) < ShortLineThreshold
                     /\ TrimmedLine[Len(TrimmedLine)] \notin DescribedTerminalPunctuation
                  THEN "h3" ELSE "p"

\* C3: a trimmed line that is not the first and begins with a numbering or section
\* marker is H2, also when it is short and ends in no terminal mark.
C3_NumberedLineIsH2 ==
    (/\ fn_level # "unset"
     /\ ~fn_first
     /\ BeginsWithMarker(TrimmedLine))
    => fn_level = "h2"

C3_Witness ==
    /\ fn_level = "h2"
    /\ ~fn_first
    /\ BeginsWithMarker(TrimmedLine)
    /\ Len(TrimmedLine) < ShortLineThreshold
    /\ TrimmedLine[Len(TrimmedLine)] \notin DescribedTerminalPunctuation

(***************************************************************************)
(* What a run has read and what it has written, for the statements below.  *)
(***************************************************************************)
LoopStates == {"docx_body", "txt_body"}

NonBlank(raw) == strip(raw) # <<>>

\* The texts of the paragraph blocks of a body, in body order; tables left out.
RECURSIVE BodyParagraphTexts(_)
BodyParagraphTexts(blocks) ==
    IF blocks = <<>> THEN <<>>
    ELSE (IF blocks[1].kind = "p" THEN <<blocks[1].text>> ELSE <<>>)
         \o BodyParagraphTexts(Tail(blocks))

\* The texts of a body in reading order: a table gives its cells' texts row by row.
RECURSIVE ReadingOrderTexts(_)
ReadingOrderTexts(blocks) ==
    IF blocks = <<>> THEN <<>>
    ELSE (IF blocks[1].kind = "p" THEN <<blocks[1].text>>
          ELSE IF blocks[1].kind = "tbl" THEN flatten(blocks[1].rows)
          ELSE <<>>)
         \o ReadingOrderTexts(Tail(blocks))

\* The lines or paragraph texts the running loop has gone through.
SeenTexts ==
    IF pc = "txt_body" THEN SubSeq(lines, 1, idx)
    ELSE BodyParagraphTexts(SubSeq(uploaded_file.body, 1, idx))

Trimmed(texts) == [i \in 1..Len(texts) |-> strip(texts[i])]

IsTextFragment(part) == part[2] # "div"

FragLevel(part) == part[2]

\* The text between a text fragment's start tag and end tag.
FragText(part) == SubSeq(part, 5, Len(part) - 4)

TextFragments == SelectSeq(html_parts, IsTextFragment)

IsPrefix(a, b) == Len(a) <= Len(b) /\ SubSeq(b, 1, Len(a)) = a

(***************************************************************************)
(* C1                                                                      *)
(***************************************************************************)
C1_FlagInvariant ==
    pc \in LoopStates =>
        LET seen == SelectSeq(SeenTexts, NonBlank)
        IN  /\ is_first_paragraph = (seen = <<>>)
            /\ Len(TextFragments) = Len(seen)
            /\ seen # <<>> => TextFragments[1] = text_fragment("h1", strip(seen[1]))
            /\ \A k \in 2..Len(TextFragments) : FragLevel(TextFragments[k]) # "h1"

C1_FlagStep ==
    /\ (pc = "run" /\ pc' \in LoopStates) => is_first_paragraph'
    /\ (pc \in LoopStates /\ pc' \in LoopStates /\ ~is_first_paragraph)
           => ~is_first_paragraph'
    /\ (pc \in LoopStates /\ is_first_paragraph /\ ~is_first_paragraph')
           => /\ Len(html_parts') > Len(html_parts)
              /\ FragLevel(html_parts'[Len(html_parts')]) = "h1"

\* C1: in every run of process_docx or process_txt the first-paragraph flag starts
\* true, goes false at the first non-blank text line and stays false; that line's
\* fragment is an <h1> whatever the line holds, no later text fragment of the run
\* is an <h1>, and the next run starts with the flag true again.
C1_FirstNonBlankIsH1 == [](C1_FlagInvariant) /\ [][C1_FlagStep]_vars

C1_Witness ==
    /\ pc = "txt_body"
    /\ ~is_first_paragraph
    /\ Len(html_parts) >= 2
    /\ FragLevel(html_parts[1]) = "h1"
    /\ BeginsWithMarker(FragText(html_parts[1]))
    /\ FragText(html_parts[1])[Len(FragText(html_parts[1]))] \in TerminalPunctuation
    /\ FragLevel(html_parts[2]) # "h1"

(***************************************************************************)
(* C4                                                                      *)
(***************************************************************************)
\* The text fragments are those of the given texts' non-blank ones, in order, the
\* first of them an <h1>.
TextFragmentsAreOf(texts) ==
    LET expected == Trimmed(SelectSeq(texts, NonBlank))
    IN  /\ [i \in 1..Len(TextFragments) |-> FragText(TextFragments[i])] = expected
        /\ expected # <<>> => FragLevel(TextFragments[1]) = "h1"

InnerText(part) ==
    LET opens == {j \in 1..(Len(part) - 1) :
                     /\ part[j] = "<"
                     /\ part[j + 1] \in {"b", "p", "h1", "h2", "h3", "div", "img", "/"}}
        InTag(i) == \E j \in opens : j <= i /\ \A k \in j..(i - 1) : part[k] # ">"
        kept == SelectSeq([i \in 1..Len(part) |-> i], LAMBDA i : ~InTag(i))
    IN  [n \in 1..Len(kept) |-> part[kept[n]]]

Requoted(a, b) ==
    /\ Len(a) = Len(b)
    /\ \A i \in 1..Len(a) : a[i] = IF b[i] = "\"" THEN "'" ELSE b[i]

\* C5: the meta description holds the inner text of the first <p> fragment, headings
\* and images before it skipped: all of it when it has at most 150 characters, its
\* first 150 characters and "..." when it has more, every double quote replaced by a
\* single quote; without a <p> fragment it holds the default sentence.
C5_MetaDescription ==
    (pc = "done" /\ meta_tag # NoMeta) =>
        LET ps == {i \in 1..Len(html_parts) : FragLevel(html_parts[i]) = "p"}
            content == SubSeq(meta_tag, 2, Len(meta_tag) - 1)
        IN  IF ps = {} THEN meta_tag = DefaultMeta
            ELSE LET inner == InnerText(html_parts[SetMin(ps)])
                 IN  /\ meta_tag[1] = "META_OPEN"
                     /\ meta_tag[Len(meta_tag)] = "META_CLOSE"
                     /\ Len(inner) <= MetaMaxLen => Requoted(content, inner)
                     /\ Len(inner) > MetaMaxLen =>
                            /\ Len(content) = MetaMaxLen + 3
                            /\ Requoted(SubSeq(content, 1, MetaMaxLen),
                                        SubSeq(inner, 1, MetaMaxLen))
                            /\ SubSeq(content, MetaMaxLen + 1, MetaMaxLen + 3)
                                   = <<".", ".", ".">>

C5_Witness ==
    /\ pc = "done"
    /\ meta_tag # NoMeta
    /\ Len(html_parts) = 3
    /\ FragLevel(html_parts[1]) = "h1"
    /\ FragLevel(html_parts[2]) = "h3"
    /\ FragLevel(html_parts[3]) = "p"
    /\ Len(FragText(html_parts[3])) = MetaMaxLen + 1
    /\ Len(meta_tag) = MetaMaxLen + 5

(***************************************************************************)
(* C6                                                                      *)
(***************************************************************************)
\* C6: the title build_final_html takes from the first H1 fragment is exactly the
\* trimmed text that fragment was rendered from, also when the text holds markup
\* characters.
C6_TitleRoundTrip ==
    (pc = "done" /\ final_html # NoHtml) =>
        LET h1s == {i \in 1..Len(html_parts) : FragLevel(html_parts[i]) = "h1"}
        IN  h1s # {} => final_html.title = FragText(html_parts[SetMin(h1s)])

(***************************************************************************)
(* C7                                                                      *)
(***************************************************************************)
\* C7: an upload that is read without error and gives no fragment ends with the
\* caller told that the result is empty: something is shown, and it is no error.
C7_EmptyResultSignalled ==
    (pc = "done" /\ html_parts = <<>>) =>
        /\ st_calls # <<>>
        /\ \A i \in 1..Len(st_calls) : st_calls[i] # "error"

(***************************************************************************)
(* C8                                                                      *)
(***************************************************************************)
\* The run on this upload fails: the container cannot be opened, an image part
\* cannot be read, a paragraph cannot be read, or the text is not UTF-8.
RunFails ==
    IF uploaded_file.name = <<"a", ".", "docx">>
    THEN \/ ~uploaded_file.readable
         \/ \E r \in DOMAIN uploaded_file.rels :
                uploaded_file.rels[r].is_image /\ ~uploaded_file.rels[r].blob_ok
         \/ \E i \in 1..Len(uploaded_file.body) : uploaded_file.body[i].kind = "bad"
    ELSE uploaded_file.name = <<"a", ".", "txt">> /\ ~uploaded_file.utf8

\* C8: a run that fails at any point returns None, reports an error, and no final
\* HTML is built or shown for that upload: there is never partial output.
C8_NoPartialOutput ==
    (pc \in {"returned", "done"} /\ RunFails) =>
        /\ html_parts = None
        /\ st_calls = <<"error">>
        /\ meta_tag = NoMeta
        /\ final_html = NoHtml

C8_Witness ==
    /\ pc = "done"
    /\ Len(uploaded_file.body) = 2
    /\ uploaded_file.body[1].kind = "p"
    /\ NonBlank(uploaded_file.body[1].text)
    /\ uploaded_file.body[2].kind = "bad"
    /\ html_parts = None
    /\ st_calls = <<"error">>

(***************************************************************************)
(* C9 and C10                                                              *)
(***************************************************************************)
\* A fragment as the event it renders.
EventOf(part) ==
    IF IsTextFragment(part) THEN <<"text", FragText(part)>> ELSE <<"image", part[7]>>

Events == [i \in 1..Len(html_parts) |-> EventOf(html_parts[i])]

\* The references of a paragraph that resolve: the id names an image relationship.
Resolvable(rid) ==
    /\ rid \in DOMAIN uploaded_file.rels
    /\ uploaded_file.rels[rid].is_image

RidEvents(rids) ==
    LET good == SelectSeq(rids, Resolvable)
    IN  [i \in 1..Len(good) |-> <<"image", uploaded_file.rels[good[i]].uri>>]

\* The events of the paragraphs of a body: per paragraph one image event for each
\* resolvable reference, in reference order, then its text if that is not blank.
RECURSIVE ExpectedEvents(_)
ExpectedEvents(blocks) ==
    IF blocks = <<>> THEN <<>>
    ELSE (IF blocks[1].kind = "p"
          THEN RidEvents(blocks[1].rids)
               \o (IF NonBlank(blocks[1].text)
                   THEN <<(<<"text", strip(blocks[1].text)>>)>> ELSE <<>>)
          ELSE <<>>)
         \o ExpectedEvents(Tail(blocks))

\* C9: one unresolvable image (a reference whose id is not in the map, or an image
\* relationship whose bytes cannot be read) never aborts the run: it gives no
\* fragment, and every other reference and every non-blank text gives its own.
C9_UnresolvableImageSkipped ==
    (/\ pc = "done"
     /\ uploaded_file.name = <<"a", ".", "docx">>
     /\ uploaded_file.readable
     /\ \A i \in 1..Len(uploaded_file.body) : uploaded_file.body[i].kind # "bad")
    => /\ html_parts # None
       /\ Events = ExpectedEvents(uploaded_file.body)

C10_OrderInvariant ==
    /\ pc = "docx_body" => Events = ExpectedEvents(SubSeq(uploaded_file.body, 1, idx))
    /\ (pc = "done" /\ final_html # NoHtml) => splitlines(final_html.body) = html_parts

C10_AppendOnlyStep ==
    (pc \in LoopStates /\ pc' \in LoopStates) => IsPrefix(html_parts, html_parts')

====
